---- MODULE Spec2Model ----
(***************************************************************************)
(* Model of the Ubuntu Image Fetcher (src/main.py): the URL normalizer,    *)
(* the filename resolver, the content safety checker, the fetch            *)
(* orchestrator with its seen-set and collision loop, and the batch runner.*)
(* Strings are sequences of one-character strings, so that prefix tests,   *)
(* parsing and sanitisation are computed and not assumed.                  *)
(***************************************************************************)
EXTENDS Integers, Sequences, FiniteSets, TLC

(* ---------------------------------------------------------------------- *)
(* Bounds of the model                                                     *)
(* ---------------------------------------------------------------------- *)
MaxUrlLen == 3      \* longest generated URL body (after an optional scheme)
MaxCalls == 2       \* single fetch_image calls explored in one session
MaxBatch == 3       \* longest URL list given to fetch_multiple_images
MaxClock == 1       \* distinct readings of time.time() during a session

(* ---------------------------------------------------------------------- *)
(* Characters and string helpers (Python str methods used by the code)     *)
(* ---------------------------------------------------------------------- *)
Letters == {"a","b","c","d","e","f","g","h","i","j","k","l","m","n","o","p",
            "q","r","s","t","u","v","w","x","y","z","F","I"}
Digits == {"0","1","2","3","4","5","6","7","8","9"}

\* str.isalnum() on one character
isalnum(c) == c \in Letters \cup Digits

\* str.isspace() on one character
isspace(c) == c = " "

\* str.lower() on one character, for the upper-case letters the model uses
lowerChar(c) == IF c = "I" THEN "i" ELSE IF c = "F" THEN "f" ELSE c

lower(s) == [k \in 1..Len(s) |-> lowerChar(s[k])]

startswith(s, p) == Len(s) >= Len(p) /\ SubSeq(s, 1, Len(p)) = p

Contains(s, c) == \E k \in 1..Len(s) : s[k] = c

\* str.rfind(c), 1-based, 0 when absent
rfind(s, c) == IF Contains(s, c)
               THEN CHOOSE k \in 1..Len(s) :
                      s[k] = c /\ \A j \in (k+1)..Len(s) : s[j] # c
               ELSE 0

\* index of the first character of s that belongs to cs, Len(s)+1 when none
findFirst(s, cs) == IF \E k \in 1..Len(s) : s[k] \in cs
                    THEN CHOOSE k \in 1..Len(s) :
                           s[k] \in cs /\ \A j \in 1..(k-1) : s[j] \notin cs
                    ELSE Len(s) + 1

\* str.strip(): drop leading and trailing whitespace
RECURSIVE lstrip(_)
lstrip(s) == IF s # <<>> /\ isspace(Head(s)) THEN lstrip(Tail(s)) ELSE s

RECURSIVE rstrip(_)
rstrip(s) == IF s # <<>> /\ isspace(s[Len(s)])
             THEN rstrip(SubSeq(s, 1, Len(s) - 1)) ELSE s

strip(s) == rstrip(lstrip(s))

\* str(n) for a natural number
RECURSIVE str(_)
str(n) == IF n < 10 THEN <<ToString(n)>>
          ELSE str(n \div 10) \o <<ToString(n % 10)>>

Http == <<"h","t","t","p",":","/","/">>
Https == <<"h","t","t","p","s",":","/","/">>

(* ---------------------------------------------------------------------- *)
(* urllib.parse.urlparse, for a URL that begins with http:// or https://   *)
(* ---------------------------------------------------------------------- *)
\* The network location runs from the "//" to the first of "/", "?", "#";
\* the path runs from there to the first of "?", "#".  A location with an
\* unmatched square bracket raises ValueError.
urlparse(url) ==
  LET rest == IF startswith(url, Https) THEN SubSeq(url, Len(Https) + 1, Len(url))
              ELSE SubSeq(url, Len(Http) + 1, Len(url))
      cut == findFirst(rest, {"/", "?", "#"})
      netloc == SubSeq(rest, 1, cut - 1)
      after == SubSeq(rest, cut, Len(rest))
      path == SubSeq(after, 1, findFirst(after, {"?", "#"}) - 1)
  IN [error |-> Contains(netloc, "[") # Contains(netloc, "]"),
      netloc |-> netloc,
      path |-> path]

(* ---------------------------------------------------------------------- *)
(* validate_url                                                            *)
(* ---------------------------------------------------------------------- *)
HasScheme(url) == startswith(url, Http) \/ startswith(url, Https)

\* variant: the plain scheme is put in front
AddScheme_insecure(url) == IF HasScheme(url) THEN url ELSE Http \o url

AddScheme(url) == IF HasScheme(url) THEN url ELSE Https \o url

validate_url(url) ==
  IF strip(url) = <<>>
  THEN [url |-> <<>>, ok |-> FALSE, error |-> <<"URL cannot be empty">>]
  ELSE LET u == AddScheme(url)
           parsed == urlparse(u)
       IN IF parsed.error
          THEN [url |-> <<>>, ok |-> FALSE,
                error |-> <<"URL parsing error: ", "Invalid IPv6 URL">>]
          ELSE IF parsed.netloc = <<>>
          THEN [url |-> <<>>, ok |-> FALSE, error |-> <<"Invalid URL format">>]
          ELSE [url |-> u, ok |-> TRUE, error |-> <<>>]

(* ---------------------------------------------------------------------- *)
(* Response headers: a header is absent or carries a string                *)
(* ---------------------------------------------------------------------- *)
NoHeader == [has |-> FALSE, val |-> <<>>]
Header(v) == [has |-> TRUE, val |-> v]

\* Python truthiness of headers.get(name): None and "" are both false
Truthy(h) == h.has /\ h.val # <<>>

(* ---------------------------------------------------------------------- *)
(* get_filename_from_url                                                   *)
(* ---------------------------------------------------------------------- *)
\* os.path.basename
basename(path) == SubSeq(path, rfind(path, "/") + 1, Len(path))

\* mimetypes.guess_extension: the type is lower-cased and looked up
guess_extension(type) ==
  LET t == lower(type)
  IN IF t = <<"i","m","a","g","e","/","p","n","g">> THEN Header(<<".","p","n","g">>)
     ELSE IF t = <<"i","m","a","g","e","/","g","i","f">> THEN Header(<<".","g","i","f">>)
     ELSE IF t = <<"i","m","a","g","e","/","j","p","e","g">> THEN Header(<<".","j","p","g">>)
     ELSE NoHeader

\* content_type.split(';')[0]
beforeSemicolon(s) == SubSeq(s, 1, findFirst(s, {";"}) - 1)

\* variant: the name is used as it came
sanitize_none(filename) == filename

\* "".join(c for c in filename if c.isalnum() or c in '.-_')
sanitize(filename) == SelectSeq(filename, LAMBDA c : isalnum(c) \/ c \in {".", "-", "_"})

ImagePrefix == <<"i","m","a","g","e","_">>
DotJpg == <<".","j","p","g">>

\* timestamp is int(time.time()) at the moment of the call
get_filename_from_url(url, content_type, timestamp) ==
  LET parsed == urlparse(url)
      fromUrl == basename(parsed.path)
      extension == guess_extension(beforeSemicolon(content_type.val))
      generated == IF Truthy(content_type) /\ extension.has
                   THEN ImagePrefix \o str(timestamp) \o extension.val
                   ELSE ImagePrefix \o str(timestamp) \o DotJpg
      filename == IF fromUrl = <<>> \/ ~Contains(fromUrl, ".")
                  THEN generated ELSE fromUrl
  IN [error |-> parsed.error,
      filename |-> IF parsed.error THEN <<>> ELSE sanitize(filename)]

(* ---------------------------------------------------------------------- *)
(* check_content_safety                                                    *)
(* ---------------------------------------------------------------------- *)
\* variant: decimal megabytes
SizeLimit_decimal == 50 * 1000 * 1000

SizeLimit == 50 * 1024 * 1024

DigitVal(c) == CHOOSE n \in 0..9 : ToString(n) = c

RECURSIVE digitsValue(_)
digitsValue(ds) == IF ds = <<>> THEN 0
                   ELSE 10 * digitsValue(SubSeq(ds, 1, Len(ds) - 1)) + DigitVal(ds[Len(ds)])

\* int(s): surrounding whitespace and one sign are allowed, then decimal
\* digits only; anything else raises ValueError
int(s) ==
  LET t == strip(s)
      signed == t # <<>> /\ t[1] \in {"-", "+"}
      ds == IF signed THEN Tail(t) ELSE t
      good == ds # <<>> /\ \A k \in 1..Len(ds) : ds[k] \in Digits
  IN [error |-> ~good,
      value |-> IF ~good THEN 0
                ELSE IF signed /\ t[1] = "-" THEN 0 - digitsValue(ds)
                ELSE digitsValue(ds)]

ImageSlash == <<"i","m","a","g","e","/">>

\* headers.get('content-type', '')
contentTypeOrEmpty(response) == IF response.ctype.has THEN response.ctype.val ELSE <<>>

check_content_safety(response) ==
  LET content_type == lower(contentTypeOrEmpty(response))
      content_length == response.clen
      parsed == int(content_length.val)
  IN IF ~startswith(content_type, ImageSlash)
     THEN [raised |-> FALSE, safe |-> FALSE,
           message |-> <<"Content is not an image (type: ">> \o content_type \o <<")">>]
     ELSE IF Truthy(content_length) /\ parsed.error
     THEN [raised |-> TRUE, safe |-> FALSE, message |-> <<"invalid literal for int()">>]
     ELSE IF Truthy(content_length) /\ parsed.value > SizeLimit
     THEN [raised |-> FALSE, safe |-> FALSE, message |-> <<"Image too large (>50MB)">>]
     ELSE [raised |-> FALSE, safe |-> TRUE, message |-> <<"Safe to download">>]

(* ---------------------------------------------------------------------- *)
(* calculate_content_hash                                                  *)
(* ---------------------------------------------------------------------- *)
\* SHA-256 hex digest, modelled as an injective tag of the exact bytes
calculate_content_hash(content) == [sha256 |-> content]

(* ---------------------------------------------------------------------- *)
(* Storage: the files of the target directory, path |-> bytes              *)
(* ---------------------------------------------------------------------- *)
directory == <<"F","e","t","c","h","e","d","_","I","m","a","g","e","s">>

\* os.path.join(directory, filename), for a filename without a leading "/"
join(dir, filename) == dir \o <<"/">> \o filename

\* the entries "." and ".." of the directory always exist
IsDirEntry(path) == path \in {join(directory, <<".">>), join(directory, <<".", ".">>)}

\* os.path.exists
exists(path, fs) == path \in DOMAIN fs \/ IsDirEntry(path)

\* os.path.splitext: the extension starts at the last dot of the last
\* component, unless only dots precede it there
splitext(p) ==
  LET sepIndex == rfind(p, "/")
      dotIndex == rfind(p, ".")
      split == dotIndex > sepIndex
               /\ \E k \in (sepIndex + 1)..(dotIndex - 1) : p[k] # "."
  IN IF split
     THEN [name |-> SubSeq(p, 1, dotIndex - 1), ext |-> SubSeq(p, dotIndex, Len(p))]
     ELSE [name |-> p, ext |-> <<>>]

\* the candidate path tried when the counter has the value n
candidate(original_filepath, n) ==
  LET parts == splitext(original_filepath)
  IN parts.name \o <<"_">> \o str(n) \o parts.ext

\* the while loop of the conflict handling, entered with filepath and counter
RECURSIVE resolveConflicts(_, _, _, _)
resolveConflicts(filepath, original_filepath, counter, fs) ==
  IF exists(filepath, fs)
  THEN resolveConflicts(candidate(original_filepath, counter),
                        original_filepath, counter + 1, fs)
  ELSE filepath

\* the file system after path has been given the bytes data
writeFile(fs, path, data) ==
  [q \in DOMAIN fs \cup {path} |-> IF q = path THEN data ELSE fs[q]]

(* ---------------------------------------------------------------------- *)
(* fetch_image                                                             *)
(* ---------------------------------------------------------------------- *)
\* A response is what session.get and the later reads and writes meet:
\*   kind    "timeout", "connect", "request" (the request raised) or
\*           "status" (a response with a status code arrived)
\*   ctype, clen   the content-type and content-length headers
\*   body, read    the payload, and whether reading it raises
\*   save, wrote   "ok", "open" (open raises) or "write" (write raises after
\*                 wrote bytes reached the file)

\* variant: only server errors raise
raisesForStatus_server(status) == 500 <= status /\ status < 600

\* response.raise_for_status()
raisesForStatus(status) == 400 <= status /\ status < 600

\* the except requests.exceptions.HTTPError clause
httpErrorReason(status) ==
  IF status = 404 THEN <<"Image not found (404)">>
  ELSE IF status = 403 THEN <<"Access forbidden (403) - server rejected the request">>
  ELSE <<"HTTP error ", ToString(status)>>

\* variant: the seen-set is not consulted
isDuplicate_never(content_hash, hashes) == FALSE

\* if content_hash in self.downloaded_hashes
isDuplicate(content_hash, hashes) == content_hash \in hashes

\* self.downloaded_hashes.add(content_hash)
addHash(hashes, content_hash) == hashes \cup {content_hash}

\* variant: the joined path is used without looking at the storage
resolvePath_unchecked(filename, fs) == join(directory, filename)

\* filepath = os.path.join(...); counter = 1; while os.path.exists(filepath): ...
resolvePath(filename, fs) ==
  LET filepath == join(directory, filename)
  IN resolveConflicts(filepath, filepath, 1, fs)

\* variant: the last byte never reaches the file
saveImage_short(fs, filepath, content, response) ==
  IF response.save = "open" THEN fs
  ELSE writeFile(fs, filepath, SubSeq(content, 1, Len(content) - 1))

\* with open(filepath, 'wb') as f: f.write(content) -- the storage afterwards
saveImage(fs, filepath, content, response) ==
  IF response.save = "open" THEN fs
  ELSE IF response.save = "write"
  THEN writeFile(fs, filepath, SubSeq(content, 1, response.wrote))
  ELSE writeFile(fs, filepath, content)

\* what the call leaves behind when it stops before touching storage
Stopped(exc, detail, fs, hashes, checked, read) ==
  [exc |-> exc, detail |-> detail, success |-> FALSE, value |-> <<>>,
   fs |-> fs, hashes |-> hashes, safety_checked |-> checked,
   body_read |-> read, filepath |-> <<>>]

\* the try statement from the save on: open, write, record the digest
trySave(response, fs, hashes, content, content_hash, filepath) ==
  IF response.save # "ok"
  THEN [Stopped("IOError", <<"cannot save">>,
                saveImage(fs, filepath, content, response), hashes, TRUE, TRUE)
          EXCEPT !.filepath = filepath]
  ELSE [exc |-> "return", detail |-> <<>>, success |-> TRUE,
        value |-> filepath, fs |-> saveImage(fs, filepath, content, response),
        hashes |-> addHash(hashes, content_hash),
        safety_checked |-> TRUE, body_read |-> TRUE,
        filepath |-> filepath]

\* ... from the file name on; resolved is what get_filename_from_url gave
tryName(response, fs, hashes, content, content_hash, resolved) ==
  IF resolved.error
  THEN Stopped("ValueError", <<"Invalid IPv6 URL">>, fs, hashes, TRUE, TRUE)
  ELSE trySave(response, fs, hashes, content, content_hash,
               resolvePath(resolved.filename, fs))

\* ... from the duplicate check on; content is response.content
tryContent(url, response, fs, hashes, now, content, content_hash) ==
  IF isDuplicate(content_hash, hashes)
  THEN [Stopped("return", <<>>, fs, hashes, TRUE, TRUE)
          EXCEPT !.value = <<"Duplicate image (already downloaded)">>]
  ELSE tryName(response, fs, hashes, content, content_hash,
               get_filename_from_url(url, response.ctype, now))

\* ... from the verdict of the safety check on
trySafe(url, response, fs, hashes, now, safety) ==
  IF safety.raised
  THEN Stopped("ValueError", safety.message, fs, hashes, TRUE, FALSE)
  ELSE IF ~safety.safe
  THEN [Stopped("return", <<>>, fs, hashes, TRUE, FALSE)
          EXCEPT !.value = <<"Safety check failed: ">> \o safety.message]
  ELSE IF response.read # "ok"
  THEN Stopped("RequestException", <<"connection broken">>, fs, hashes, TRUE, FALSE)
  ELSE tryContent(url, response, fs, hashes, now, response.body,
                  calculate_content_hash(response.body))

\* the body of the try statement: it returns (exc = "return") or raises
tryBody(url, response, fs, hashes, now) ==
  IF response.kind = "timeout"
  THEN Stopped("Timeout", <<>>, fs, hashes, FALSE, FALSE)
  ELSE IF response.kind = "connect"
  THEN Stopped("ConnectionError", <<>>, fs, hashes, FALSE, FALSE)
  ELSE IF response.kind = "request"
  THEN Stopped("RequestException", <<"invalid request">>, fs, hashes, FALSE, FALSE)
  ELSE IF raisesForStatus(response.status)
  THEN Stopped("HTTPError", <<>>, fs, hashes, FALSE, FALSE)
  ELSE trySafe(url, response, fs, hashes, now, check_content_safety(response))

\* variant: the clauses for the named exception classes only, without the
\* final except Exception
handleException_named(exc, detail, status) ==
  IF exc = "Timeout"
  THEN [escapes |-> FALSE,
        value |-> <<"Connection timeout - the server took too long to respond">>]
  ELSE IF exc = "ConnectionError"
  THEN [escapes |-> FALSE,
        value |-> <<"Connection failed - check your internet connection">>]
  ELSE IF exc = "HTTPError"
  THEN [escapes |-> FALSE, value |-> httpErrorReason(status)]
  ELSE IF exc = "RequestException"
  THEN [escapes |-> FALSE, value |-> <<"Request error: ">> \o detail]
  ELSE IF exc = "IOError"
  THEN [escapes |-> FALSE, value |-> <<"File save error: ">> \o detail]
  ELSE [escapes |-> TRUE, value |-> <<>>]

\* the except clauses, in the order of the source; "escapes" is true when
\* no clause takes the exception
handleException(exc, detail, status) ==
  IF exc = "Timeout"
  THEN [escapes |-> FALSE,
        value |-> <<"Connection timeout - the server took too long to respond">>]
  ELSE IF exc = "ConnectionError"
  THEN [escapes |-> FALSE,
        value |-> <<"Connection failed - check your internet connection">>]
  ELSE IF exc = "HTTPError"
  THEN [escapes |-> FALSE, value |-> httpErrorReason(status)]
  ELSE IF exc = "RequestException"
  THEN [escapes |-> FALSE, value |-> <<"Request error: ">> \o detail]
  ELSE IF exc = "IOError"
  THEN [escapes |-> FALSE, value |-> <<"File save error: ">> \o detail]
  ELSE [escapes |-> FALSE, value |-> <<"Unexpected error: ">> \o detail]

\* what the caller receives when the try body ended as r and the except
\* clauses answered h
outcome(r, h) ==
  IF r.exc = "return"
  THEN [r EXCEPT !.exc = "none"]
  ELSE [r EXCEPT !.exc = IF h.escapes THEN r.exc ELSE "none",
                 !.value = IF h.escapes THEN <<>> ELSE h.value]

\* the except clauses applied to the way the try body ended
handled(r, status) == outcome(r, handleException(r.exc, r.detail, status))

\* fetch_image: (success, value), the storage and the seen-set afterwards
fetch_image(url, response, fs, hashes, now) ==
  handled(tryBody(url, response, fs, hashes, now), response.status)

(* ---------------------------------------------------------------------- *)
(* fetch_multiple_images: the decisions of one loop iteration              *)
(* ---------------------------------------------------------------------- *)
\* if i < len(urls): time.sleep(0.5)   (i counts from 1)
shouldSleep(i, n) == i < n

(* ---------------------------------------------------------------------- *)
(* Inputs                                                                  *)
(* ---------------------------------------------------------------------- *)
PayloadX == <<1>>
PayloadY == <<1, 2>>
OldBytes == <<9>>
Payloads == {PayloadX, PayloadY}

CtHtml == Header(<<"t","e","x","t","/","h","t","m","l">>)
CtPng == Header(<<"i","m","a","g","e","/","p","n","g">>)
CtGifUpper == Header(<<"I","m","a","g","e","/","g","i","f">>)
CtUnknown == Header(<<"i","m","a","g","e","/","x">>)
CtParam == Header(<<"i","m","a","g","e","/","p","n","g",";","q">>)
ImageTypes == {CtPng, CtGifUpper, CtUnknown, CtParam}

ClAtLimit == Header(<<"5","2","4","2","8","8","0","0">>)
ClOver == Header(<<"5","2","4","2","8","8","0","1">>)
ClUnder == Header(<<"5","2","4","2","8","7","9","9">>)
ClZero == Header(<<"0">>)
ClEmpty == Header(<<>>)
ClNegative == Header(<<"-","1">>)
ClWord == Header(<<"a","b","c">>)
Lengths == {NoHeader, ClEmpty, ClZero, ClUnder, ClAtLimit, ClOver, ClNegative, ClWord}

Resp(kind, status, ctype, clen, body, read, save, wrote) ==
  [kind |-> kind, status |-> status, ctype |-> ctype, clen |-> clen,
   body |-> body, read |-> read, save |-> save, wrote |-> wrote]

Failed(kind) == Resp(kind, 0, NoHeader, NoHeader, PayloadX, "ok", "ok", 0)
Status(code) == Resp("status", code, CtPng, NoHeader, PayloadX, "ok", "ok", 0)
Ok(ctype, clen, body) == Resp("status", 200, ctype, clen, body, "ok", "ok", 0)

TransportFailures == {Failed("timeout"), Failed("connect"), Failed("request")}
ErrorStatuses == {Status(404), Status(403), Status(500)}
NotImages == {Ok(NoHeader, NoHeader, PayloadX), Ok(CtHtml, ClOver, PayloadX)}
Sized == {Ok(CtPng, cl, PayloadX) : cl \in Lengths}
Images == {Ok(ct, NoHeader, b) : ct \in ImageTypes, b \in Payloads}
BrokenReads == {Resp("status", 200, CtPng, NoHeader, b, "fail", "ok", 0) : b \in Payloads}
BrokenSaves ==
  {Resp("status", 200, CtPng, NoHeader, b, "ok", "open", 0) : b \in Payloads}
  \cup {Resp("status", 200, CtPng, NoHeader, PayloadY, "ok", "write", w) : w \in 0..1}

Responses == TransportFailures \cup ErrorStatuses \cup NotImages \cup Sized
             \cup Images \cup BrokenReads \cup BrokenSaves

BatchResponses == {Ok(CtPng, NoHeader, PayloadX), Ok(CtPng, NoHeader, PayloadY),
                   Status(404),
                   Resp("status", 200, CtPng, NoHeader, PayloadX, "ok", "open", 0)}

Host == <<"h">>
ImgJpg == <<"i","m","g",".","j","p","g">>
Img1Jpg == <<"i","m","g","_","1",".","j","p","g">>
Img2Jpg == <<"i","m","g","_","2",".","j","p","g">>

UrlImg == Host \o <<"/">> \o ImgJpg
UrlImgOther == Http \o Host \o <<"/","a","/">> \o ImgJpg
UrlBlank == <<" ">>
UrlNoHost == <<"/","x">>
UrlBare == Host
UrlDotDot == Host \o <<"/",".",".">>
UrlSymbols == Host \o <<"/","!",".","!">>
UrlSpaced == Https \o Host \o <<"/","a"," ","b","!",".","j","p","g">>
UrlQuery == Host \o <<"/","c",".","p","n","g","?","q","=","/","d",".","e">>

SingleUrls == {UrlImg, UrlImgOther, UrlNoHost, UrlBare, UrlDotDot, UrlSymbols,
               UrlSpaced, UrlQuery}
BatchUrls == {UrlImg, UrlImgOther, UrlBlank}

\* what one single fetch may be given: every response for the plain URL,
\* every image type for the URL without a file name, and two plain image
\* responses for each of the other URLs
SingleInputs ==
  {<<UrlImg, r>> : r \in Responses}
  \cup {<<UrlBare, r>> : r \in Images}
  \cup {<<u, Ok(CtPng, NoHeader, b)>> : u \in SingleUrls, b \in Payloads}

RECURSIVE SeqsUpTo(_, _)
SeqsUpTo(S, n) == IF n = 0 THEN {<<>>}
                  ELSE LET shorter == SeqsUpTo(S, n - 1)
                       IN shorter \cup {Append(q, x) : q \in shorter, x \in S}

Existing(names) == [q \in {join(directory, f) : f \in names} |-> OldBytes]
InitialFiles == {Existing({}), Existing({ImgJpg}), Existing({ImgJpg, Img1Jpg})}

(* ---------------------------------------------------------------------- *)
(* State                                                                   *)
(* ---------------------------------------------------------------------- *)
VARIABLES
  files,              \* storage under the target directory: path |-> bytes
  downloaded_hashes,  \* self.downloaded_hashes
  clock,              \* int(time.time())
  calls,              \* fetch_image calls made so far
  pc,                 \* "idle", "loop" (inside fetch_multiple_images), "done"
  urls,               \* the argument of fetch_multiple_images
  i,                  \* enumerate index of the last item processed
  successful,         \* local of fetch_multiple_images
  failed,             \* local of fetch_multiple_images
  sleeps,             \* number of time.sleep(0.5) calls of the batch
  log,                \* per item: was it valid, fetched, a success, followed by a sleep
  last,               \* the most recent fetch_image call and the state it found
  succeeded,          \* payloads for which some fetch_image call returned success
  raw,                \* a raw string handed to validate_url on its own
  validated           \* what validate_url returned for raw, once it has run

vars == <<files, downloaded_hashes, clock, calls, pc, urls, i, successful,
          failed, sleeps, log, last, succeeded, raw, validated>>

urlVars == <<raw, validated>>

batchVars == <<pc, urls, i, successful, failed, sleeps, log>>

NoCall == [called |-> FALSE, url |-> <<>>, response |-> Failed("timeout"),
           out |-> Stopped("none", <<>>, <<>>, {}, FALSE, FALSE),
           fsBefore |-> <<>>, hashesBefore |-> {}, succeededBefore |-> {},
           now |-> 0]

NotValidated == [done |-> FALSE, url |-> <<>>, ok |-> FALSE, error |-> <<>>]

Init ==
  /\ files \in InitialFiles
  /\ downloaded_hashes = {}
  /\ clock = 0
  /\ calls = 0
  /\ pc = "idle"
  /\ urls = <<>>
  /\ i = 0
  /\ successful = 0
  /\ failed = 0
  /\ sleeps = 0
  /\ log = <<>>
  /\ last = NoCall
  /\ succeeded = {}
  /\ raw = <<>>
  /\ validated = NotValidated

\* the effect on the session of one call of fetch_image that returned out
Record(url, response, out) ==
  /\ files' = out.fs
  /\ downloaded_hashes' = out.hashes
  /\ calls' = calls + 1
  /\ last' = [called |-> TRUE, url |-> url, response |-> response,
              out |-> [out EXCEPT !.fs = <<>>, !.hashes = {}],
              fsBefore |-> files, hashesBefore |-> downloaded_hashes,
              succeededBefore |-> succeeded, now |-> clock]
  /\ succeeded' = IF out.exc = "none" /\ out.success
                  THEN succeeded \cup {response.body} ELSE succeeded

\* one call of fetch_image on the current state
Call(url, response) ==
  Record(url, response, fetch_image(url, response, files, downloaded_hashes, clock))

\* time passes
Tick ==
  /\ clock < MaxClock
  /\ clock' = clock + 1
  /\ UNCHANGED <<files, downloaded_hashes, calls, last, succeeded>>
  /\ UNCHANGED batchVars
  /\ UNCHANGED urlVars

\* main, choice 1: strip the input, validate it, fetch it
SingleFetch(entered, response) ==
  /\ pc = "idle"
  /\ calls < MaxCalls
  /\ strip(entered) # <<>>
  /\ \E v \in {validate_url(strip(entered))} :
       /\ v.ok
       /\ Call(v.url, response)
  /\ UNCHANGED clock
  /\ UNCHANGED batchVars
  /\ UNCHANGED urlVars

\* fetch_multiple_images is entered; the model explores a batch as the first
\* operation of a session
BatchStart(list) ==
  /\ pc = "idle"
  /\ calls = 0
  /\ pc' = "loop"
  /\ urls' = list
  /\ i' = 0
  /\ successful' = 0
  /\ failed' = 0
  /\ sleeps' = 0
  /\ log' = <<>>
  /\ UNCHANGED <<files, downloaded_hashes, clock, calls, last, succeeded>>
  /\ UNCHANGED urlVars

\* variant: an invalid URL is skipped without being counted
BatchInvalid_uncounted ==
  /\ pc = "loop"
  /\ i < Len(urls)
  /\ ~validate_url(urls[i + 1]).ok
  /\ i' = i + 1
  /\ log' = Append(log, [url |-> urls[i + 1], valid |-> FALSE, called |-> FALSE,
                         success |-> FALSE, slept |-> FALSE])
  /\ UNCHANGED <<files, downloaded_hashes, clock, calls, last, succeeded,
                 pc, urls, successful, sleeps, failed>>
  /\ UNCHANGED urlVars

\* one iteration whose URL fails validation: failed += 1; continue
\* (the continue skips the pause at the end of the loop body)
BatchInvalid ==
  /\ pc = "loop"
  /\ i < Len(urls)
  /\ ~validate_url(urls[i + 1]).ok
  /\ i' = i + 1
  /\ failed' = failed + 1
  /\ log' = Append(log, [url |-> urls[i + 1], valid |-> FALSE, called |-> FALSE,
                         success |-> FALSE, slept |-> FALSE])
  /\ UNCHANGED <<files, downloaded_hashes, clock, calls, last, succeeded,
                 pc, urls, successful, sleeps>>
  /\ UNCHANGED urlVars

\* one iteration whose URL is valid: fetch, count, pause unless it is the last
BatchFetch(response) ==
  /\ pc = "loop"
  /\ i < Len(urls)
  /\ \E v \in {validate_url(urls[i + 1])} :
       /\ v.ok
       /\ Call(v.url, response)
  /\ i' = i + 1
  /\ \E ok \in {last'.out.exc = "none" /\ last'.out.success} :
       /\ successful' = IF ok THEN successful + 1 ELSE successful
       /\ failed' = IF ok THEN failed ELSE failed + 1
       /\ log' = Append(log, [url |-> urls[i + 1], valid |-> TRUE, called |-> TRUE,
                              success |-> ok,
                              slept |-> shouldSleep(i + 1, Len(urls))])
  /\ sleeps' = IF shouldSleep(i + 1, Len(urls)) THEN sleeps + 1 ELSE sleeps
  /\ UNCHANGED <<clock, pc, urls>>
  /\ UNCHANGED urlVars

\* the loop is exhausted: return successful, failed
BatchReturn ==
  /\ pc = "loop"
  /\ i = Len(urls)
  /\ pc' = "done"
  /\ UNCHANGED <<files, downloaded_hashes, clock, calls, last, succeeded,
                 urls, i, successful, failed, sleeps, log>>
  /\ UNCHANGED urlVars

Next ==
  \/ Tick
  \/ \E input \in SingleInputs : SingleFetch(input[1], input[2])
  \/ \E list \in SeqsUpTo(BatchUrls, MaxBatch) : BatchStart(list)
  \/ BatchInvalid
  \/ \E response \in BatchResponses : BatchFetch(response)
  \/ BatchReturn

Spec == Init /\ [][Next]_vars

(* ---------------------------------------------------------------------- *)
(* validate_url on its own, over generated strings                         *)
(* ---------------------------------------------------------------------- *)
UrlAlphabet == {"a", ".", "/", " ", "?", "[", "]"}
HttpBroken == <<"h","t","t","p",":","/">>
Prefixes == {<<>>, Http, Https, HttpBroken}
RawUrls == {pre \o body : pre \in Prefixes, body \in SeqsUpTo(UrlAlphabet, MaxUrlLen)}

InitUrl ==
  /\ files = Existing({})
  /\ downloaded_hashes = {}
  /\ clock = 0
  /\ calls = 0
  /\ pc = "idle"
  /\ urls = <<>>
  /\ i = 0
  /\ successful = 0
  /\ failed = 0
  /\ sleeps = 0
  /\ log = <<>>
  /\ last = NoCall
  /\ succeeded = {}
  /\ raw \in RawUrls
  /\ validated = NotValidated

Validate ==
  /\ ~validated.done
  /\ validated' = validate_url(raw) @@ [done |-> TRUE]
  /\ UNCHANGED <<files, downloaded_hashes, clock, calls, last, succeeded, raw>>
  /\ UNCHANGED batchVars

NextUrl == Validate

SpecUrl == InitUrl /\ [][NextUrl]_vars

(* ---------------------------------------------------------------------- *)
(* Vocabulary of the properties                                            *)
(* ---------------------------------------------------------------------- *)
\* the most recent call received a response without an error status
GotResponse == last.called /\ last.response.kind = "status"
               /\ last.response.status < 400

\* ... whose declared type is an image type
GotImageType == GotResponse
                /\ startswith(lower(contentTypeOrEmpty(last.response)), ImageSlash)

\* ... that passed the safety check and whose body was read
GotBody == GotResponse /\ check_content_safety(last.response).safe
           /\ last.response.read = "ok"

\* ... and was not a duplicate, so that the call went on to save the body
WentToSave == GotBody
              /\ calculate_content_hash(last.response.body) \notin last.hashesBefore

Returned == last.out.exc = "none"
ReturnedFailure(reason) == Returned /\ ~last.out.success /\ last.out.value = reason
FailurePrefixed(prefix) == Returned /\ ~last.out.success
                           /\ last.out.value # <<>> /\ last.out.value[1] = prefix

StateUntouched == files = last.fsBefore /\ downloaded_hashes = last.hashesBefore

SafeChars == Letters \cup Digits \cup {".", "-", "_"}

\* the file name part of a path directly under the target directory
NameUnder(path) == SubSeq(path, Len(directory) + 2, Len(path))

\* the base path of the most recent call and the n-th path tried after it
BasePath == join(directory,
                 get_filename_from_url(last.url, last.response.ctype, last.now).filename)
Tried(n) == IF n = 0 THEN BasePath ELSE candidate(BasePath, n)

Count(P(_), n) == Cardinality({k \in 1..n : P(k)})

(* ---------------------------------------------------------------------- *)
(* Properties                                                              *)
(* ---------------------------------------------------------------------- *)

\* C1: once fetch_image has succeeded on a body X, a later call whose
\* response carries the same body and passes the safety check returns the
\* failure "Duplicate image (already downloaded)" and leaves the storage
\* and the seen-set as they were.
C1_DuplicateRejected ==
  (GotBody /\ last.response.body \in last.succeededBefore)
    => /\ ReturnedFailure(<<"Duplicate image (already downloaded)">>)
       /\ StateUntouched

C1_Witness ==
  /\ GotBody
  /\ last.response.body \in last.succeededBefore
  /\ last.url = Http \o Host \o <<"/","a","/">> \o ImgJpg
  /\ ReturnedFailure(<<"Duplicate image (already downloaded)">>)

\* C2: every digest of the seen-set is the digest of bytes that a file of
\* the storage holds completely; and a call whose open or write fails
\* returns a "File save error" failure, raises nothing and leaves the
\* seen-set as it was.
C2_DigestAfterWrite ==
  /\ \A h \in downloaded_hashes :
       \E path \in DOMAIN files : calculate_content_hash(files[path]) = h
  /\ (WentToSave /\ last.response.save # "ok")
       => /\ FailurePrefixed("File save error: ")
          /\ downloaded_hashes = last.hashesBefore

C2_Witness ==
  /\ WentToSave
  /\ last.response.save = "write"
  /\ last.response.wrote = 1
  /\ last.out.filepath \in DOMAIN files
  /\ files[last.out.filepath] = PayloadX
  /\ calculate_content_hash(PayloadY) \notin downloaded_hashes
  /\ FailurePrefixed("File save error: ")

\* C3: a call that saves writes to the first path of the sequence
\* name+ext, name_1+ext, name_2+ext, ... that does not exist (an existing
\* img.jpg gives img_1.jpg, then img_2.jpg), and every file that existed
\* before the call is still there with the same bytes.
C3_FirstFreePath ==
  /\ last.called =>
       \A path \in DOMAIN last.fsBefore :
         path \in DOMAIN files /\ files[path] = last.fsBefore[path]
  /\ (WentToSave /\ last.response.save = "ok") =>
       /\ \E n \in 0..(Cardinality(DOMAIN last.fsBefore) + 1) :
            /\ last.out.filepath = Tried(n)
            /\ ~exists(Tried(n), last.fsBefore)
            /\ \A m \in 0..(n - 1) : exists(Tried(m), last.fsBefore)
       /\ files[last.out.filepath] = last.response.body
       /\ (BasePath = join(directory, ImgJpg)
           /\ join(directory, ImgJpg) \in DOMAIN last.fsBefore
           /\ join(directory, Img1Jpg) \notin DOMAIN last.fsBefore)
            => last.out.filepath = join(directory, Img1Jpg)
       /\ (BasePath = join(directory, ImgJpg)
           /\ join(directory, ImgJpg) \in DOMAIN last.fsBefore
           /\ join(directory, Img1Jpg) \in DOMAIN last.fsBefore
           /\ join(directory, Img2Jpg) \notin DOMAIN last.fsBefore)
            => last.out.filepath = join(directory, Img2Jpg)

C3_Witness ==
  /\ WentToSave
  /\ last.response.save = "ok"
  /\ join(directory, ImgJpg) \in DOMAIN last.fsBefore
  /\ join(directory, Img1Jpg) \in DOMAIN last.fsBefore
  /\ last.out.filepath = join(directory, Img2Jpg)
  /\ files[join(directory, ImgJpg)] = OldBytes

\* C4: a batch of n >= 1 URLs pauses exactly n-1 times, once between each
\* pair of consecutive items, whatever the outcome of each item, a URL that
\* fails normalization included.
C4_PauseBetweenAllItems ==
  (pc = "done" /\ Len(urls) >= 1) => sleeps = Len(urls) - 1

\* C5: a batch handles every URL once and in order, never stops early, and
\* returns counts that add up to the length of the list: successful is the
\* number of successful fetches, failed the number of URLs that failed
\* normalization or whose fetch failed; fetch_image is called for exactly
\* the URLs that pass normalization.
C5_BatchCounts ==
  /\ pc \in {"loop", "done"} =>
       /\ Len(log) = i
       /\ successful + failed = i
       /\ \A k \in 1..i : log[k].url = urls[k]
       /\ \A k \in 1..i : log[k].called <=> validate_url(urls[k]).ok
       /\ successful = Count(LAMBDA k : log[k].called /\ log[k].success, i)
       /\ failed = Count(LAMBDA k : ~validate_url(urls[k]).ok
                                     \/ (log[k].called /\ ~log[k].success), i)
       /\ calls = Count(LAMBDA k : validate_url(urls[k]).ok, i)
  /\ pc = "done" => i = Len(urls) /\ successful + failed = Len(urls)

C5_Witness ==
  /\ pc = "done"
  /\ Len(urls) = 3
  /\ ~validate_url(urls[1]).ok
  /\ log[2].called /\ ~log[2].success
  /\ log[3].called /\ log[3].success
  /\ successful = 1
  /\ failed = 2

\* C6: every call of fetch_image returns: no exception escapes it, whatever
\* the request, the safety check (a content-length that is not a number
\* included), the body read, the file name and the write do; a failure
\* carries a non-empty reason, a success the path written.
C6_NothingEscapes ==
  last.called =>
    /\ Returned
    /\ ~last.out.success => last.out.value # <<>> /\ last.out.value[1] # ""
    /\ last.out.success => last.out.value = last.out.filepath
                           /\ last.out.filepath \in DOMAIN files

C6_Witness ==
  /\ GotImageType
  /\ last.response.clen = Header(<<"a","b","c">>)
  /\ FailurePrefixed("Unexpected error: ")

\* C7: an error status makes the call fail before the safety check, the
\* body read, any write and any change of the seen-set; the reason names
\* 404 and 403 specifically and otherwise is "HTTP error <code>"; a timeout
\* and a connection failure have their own reasons.
C7_ErrorStatus ==
  /\ (last.called /\ last.response.kind = "status" /\ last.response.status >= 400)
       => /\ Returned /\ ~last.out.success
          /\ ~last.out.safety_checked
          /\ ~last.out.body_read
          /\ StateUntouched
          /\ last.response.status = 404
               => last.out.value = <<"Image not found (404)">>
          /\ last.response.status = 403
               => last.out.value =
                    <<"Access forbidden (403) - server rejected the request">>
          /\ last.response.status \notin {403, 404}
               => last.out.value = <<"HTTP error ", ToString(last.response.status)>>
  /\ (last.called /\ last.response.kind = "timeout")
       => ReturnedFailure(<<"Connection timeout - the server took too long to respond">>)
  /\ (last.called /\ last.response.kind = "connect")
       => ReturnedFailure(<<"Connection failed - check your internet connection">>)

C7_Witness ==
  /\ last.called
  /\ last.response.kind = "status"
  /\ last.response.status = 500
  /\ last.out.value = <<"HTTP error ", "500">>
  /\ downloaded_hashes # {}

\* C8: for an image content-type the safety check rejects a declared
\* content-length above 52,428,800 and accepts one at or below it (0 and
\* 52,428,800 included) and an absent one; a rejection makes the call fail
\* with the prefix "Safety check failed: " before the body is read.
C8_SizeLimit ==
  GotImageType =>
    LET declared == last.response.clen
        verdict == check_content_safety(last.response)
        number == int(declared.val)
    IN /\ (Truthy(declared) /\ ~number.error /\ number.value > 52428800)
            => /\ ~verdict.raised /\ ~verdict.safe
               /\ FailurePrefixed("Safety check failed: ")
               /\ ~last.out.body_read
               /\ StateUntouched
       /\ (~declared.has \/ (Truthy(declared) /\ ~number.error
                             /\ number.value <= 52428800))
            => /\ ~verdict.raised /\ verdict.safe
               /\ last.response.read = "ok" => last.out.body_read
       /\ declared = Header(<<"5","2","4","2","8","8","0","1">>) => ~verdict.safe
       /\ declared \in {Header(<<"5","2","4","2","8","8","0","0">>),
                        Header(<<"5","2","4","2","8","7","9","9">>),
                        Header(<<"0">>)} => verdict.safe

C8_Witness ==
  /\ GotImageType
  /\ last.response.clen = Header(<<"5","2","4","2","8","8","0","1">>)
  /\ last.out.value = <<"Safety check failed: ", "Image too large (>50MB)">>

\* C10: the name under which a call writes, collision suffix included, is
\* not empty, consists of alphanumeric characters, ".", "-" and "_" only,
\* and is neither "." nor ".."; the file is a direct child of the target
\* directory.
C10_SafeFileName ==
  last.called =>
    \A path \in (DOMAIN files \ DOMAIN last.fsBefore) \cup
                (IF last.out.filepath = <<>> THEN {} ELSE {last.out.filepath}) :
      /\ startswith(path, directory \o <<"/">>)
      /\ NameUnder(path) # <<>>
      /\ \A k \in 1..Len(NameUnder(path)) : NameUnder(path)[k] \in SafeChars
      /\ NameUnder(path) \notin {<<".">>, <<".", ".">>}

C10_Witness ==
  /\ WentToSave
  /\ last.response.save = "ok"
  /\ last.url = Https \o Host \o <<"/","a"," ","b","!",".","j","p","g">>
  /\ NameUnder(last.out.filepath) = <<"a","b",".","j","p","g">>

IsBlank(s) == \A k \in 1..Len(s) : isspace(s[k])

\* the input with the secure scheme in front unless it has a scheme already
Prefixed(s) == IF HasScheme(s) THEN s ELSE Https \o s

\* C9: a blank input fails with "URL cannot be empty"; every input without
\* a scheme comes back with https:// in front and parses with a non-empty
\* host; a URL is returned only when it parses with a non-empty host, and
\* every other failure has the reason "Invalid URL format".
C9_SchemeAlwaysYieldsHost ==
  validated.done =>
    /\ IsBlank(raw) => ~validated.ok /\ validated.error = <<"URL cannot be empty">>
    /\ (~IsBlank(raw) /\ ~HasScheme(raw))
         => /\ validated.ok
            /\ validated.url = Https \o raw
            /\ urlparse(validated.url).netloc # <<>>
    /\ validated.ok => urlparse(validated.url).netloc # <<>>
    /\ (~validated.ok /\ ~IsBlank(raw)) => validated.error = <<"Invalid URL format">>

\* C9 amended: a blank input fails with "URL cannot be empty"; a non-blank
\* input without a scheme is parsed with https:// in front and is returned
\* in that form exactly when the parse succeeds with a non-empty host; a
\* URL is returned only when it parses with a non-empty host; a non-blank
\* input that is not returned fails with "Invalid URL format" when its host
\* is empty and with a "URL parsing error" reason when the parse raises.
C9_SchemeThenHostCheck ==
  validated.done =>
    LET parsed == urlparse(Prefixed(raw))
    IN /\ IsBlank(raw) => ~validated.ok /\ validated.error = <<"URL cannot be empty">>
       /\ ~IsBlank(raw) =>
            /\ validated.ok <=> (~parsed.error /\ parsed.netloc # <<>>)
            /\ validated.ok => validated.url = Prefixed(raw)
            /\ (validated.ok /\ ~HasScheme(raw)) => validated.url = Https \o raw
            /\ (~validated.ok /\ parsed.error)
                 => validated.error[1] = "URL parsing error: "
            /\ (~validated.ok /\ ~parsed.error)
                 => validated.error = <<"Invalid URL format">>
       /\ validated.ok => /\ ~urlparse(validated.url).error
                          /\ urlparse(validated.url).netloc # <<>>

C9_Witness ==
  /\ validated.done
  /\ raw = <<"a", "/", "a">>
  /\ validated.ok
  /\ validated.url = <<"h","t","t","p","s",":","/","/","a","/","a">>
====
